---------------------------- MODULE Spec2Model ----------------------------
(***************************************************************************)
(* Model of genetic-algorithm-tsp-api: the solver loop of                  *)
(* src/src/tsp_solver.rs (solve_tsp) and the /tsp request handler of       *)
(* src/src/main.rs.                                                        *)
(*                                                                         *)
(* The route and population operators (random population, evolve,          *)
(* add_n_random_nodes, get_fittest_population, get_n_fittest, fitness)     *)
(* live in the genetic_algorithm_tsp crate, whose source is not part of    *)
(* this repository.  They are modelled from sections 3 and 4 of the        *)
(* specification; the call sites, argument lists and the loop come from    *)
(* the source.                                                             *)
(*                                                                         *)
(* A route is a sequence of city indices (values 0..n-1, positions 1..n).  *)
(* A population is a bag of routes: the specification calls the            *)
(* collection "ordered-irrelevant", and the tie-break among equally fit    *)
(* routes is left open (any of them may be kept).                          *)
(*                                                                         *)
(* Probabilities are kept in ten-thousandths: the source computes          *)
(* 1.0 - (i / 10000.0) as f32 for an integer i, and the f32 rounding is    *)
(* monotone and fixes 0.0 and 1.0, so order and range of the values are    *)
(* those of the exact rationals (10000 - i) / 10000.                       *)
(***************************************************************************)
EXTENDS Integers, Sequences, FiniteSets, Bags

VARIABLES
    pc,                 \* position of the run
    entry,              \* "none", "direct" (library call / test) or "api" (/tsp request)
    distance_matrix,    \* the matrix handed to the run, a sequence of rows
    n_generations,
    n_routes,
    n_random_individuals_per_generation,
    top_n,
    population,         \* bag of routes
    mutation_probability_int, \* current item of (0..10000).step_by(..)
    transitions,        \* number of completed closure calls of the fold
    probs,              \* the probabilities passed to evolve so far, in order
    result,             \* the routes solve_tsp returned
    error,              \* why the run panicked, "none" otherwise
    solver_invoked,     \* tsp_solver::solve_tsp was entered
    status,             \* HTTP status of the response, 0 before there is one
    body                \* the sequence of RouteWithFitness of the response

vars == <<pc, entry, distance_matrix, n_generations, n_routes,
          n_random_individuals_per_generation, top_n, population,
          mutation_probability_int, transitions, probs, result, error,
          solver_invoked, status, body>>

-----------------------------------------------------------------------------
(* Bounds of the inputs of a direct call.                                  *)
MaxGenerations == 3
MaxRoutes == 2
MaxRandom == 1
MaxTopN == 3

(* Program constants.                                                      *)
Denominator == 10000
ServeNRoutes == 30
ServeNRandom == 10
ServeTopN == 3

(* Input matrices.  Square2 is scenario B of the specification; Square3    *)
(* is asymmetric, so that its two tour directions differ in length (3 and  *)
(* 9).  RaggedLow and RaggedHigh are the non-square request bodies.        *)
Square2 == << <<0, 5>>, <<5, 0>> >>
Square3 == << <<0, 1, 4>>, <<2, 0, 1>>, <<1, 3, 0>> >>
RaggedLow == << <<0, 5>>, <<5>> >>
RaggedHigh == << <<0>>, <<5, 0>> >>

DirectMatrices == {Square2, Square3}
RequestMatrices == {Square2, RaggedLow, RaggedHigh}
GenerationCounts == (0..MaxGenerations) \cup {Denominator + 1}

-----------------------------------------------------------------------------
(* DistanceMatrix                                                          *)

n_units(m) == Len(m)

IsSquare(m) == \A i \in 1..Len(m) : Len(m[i]) = Len(m)

Range(s) == {s[i] : i \in DOMAIN s}

IsPermutation(route, n) ==
    /\ DOMAIN route = 1..n
    /\ Range(route) = 0..(n - 1)

RandomRoutes(n) == {r \in [1..n -> 0..(n - 1)] : Range(r) = 0..(n - 1)}

RECURSIVE BagsOfSize(_, _)
BagsOfSize(S, k) ==
    IF S = {}
    THEN IF k = 0 THEN {EmptyBag} ELSE {}
    ELSE LET x == CHOOSE y \in S : TRUE
         IN  UNION {{IF c = 0 THEN b ELSE b (+) [e \in {x} |-> c] :
                        b \in BagsOfSize(S \ {x}, k - c)} : c \in 0..k}

get_random_population(m, size) == BagsOfSize(RandomRoutes(n_units(m)), size)

-----------------------------------------------------------------------------
(* Route                                                                   *)

Succ(i, n) == (i % n) + 1

IndexError(route, m) ==
    \E i \in DOMAIN route :
        \/ route[i] + 1 \notin DOMAIN m
        \/ route[Succ(i, Len(route))] + 1 \notin DOMAIN m[route[i] + 1]

RECURSIVE SumTo(_, _, _)
SumTo(route, m, k) ==
    IF k = 0 THEN 0
    ELSE m[route[k] + 1][route[Succ(k, Len(route))] + 1] + SumTo(route, m, k - 1)

TourLength(route, m) == IF Len(route) < 2 THEN 0 ELSE SumTo(route, m, Len(route))

fitness(route, m) == 0 - TourLength(route, m)

RecombineNoSkip(p1, p2, start, len) ==
    [i \in 1..Len(p1) |->
        IF i >= start /\ i < start + len THEN p1[i]
        ELSE p2[IF i < start THEN i ELSE i - len]]

recombine(p1, p2, start, len) ==
    LET slice == {p1[i] : i \in start..(start + len - 1)}
        rest  == SelectSeq(p2, LAMBDA c : c \notin slice)
    IN  [i \in 1..Len(p1) |->
            IF i >= start /\ i < start + len THEN p1[i]
            ELSE rest[IF i < start THEN i ELSE i - len]]

Swap(route, i, j) ==
    [k \in DOMAIN route |->
        IF k = i THEN route[j] ELSE IF k = j THEN route[i] ELSE route[k]]

mutate(route, prob) ==
    (IF prob < Denominator THEN {route} ELSE {})
      \cup (IF prob > 0
            THEN {Swap(route, i, j) : i \in DOMAIN route, j \in DOMAIN route}
            ELSE {})

-----------------------------------------------------------------------------
(* Population                                                              *)

Offspring(pop, prob) ==
    UNION {UNION {UNION {mutate(recombine(p1, p2, s, l), prob) :
                            l \in 0..(Len(p1) - s + 1)} :
                     s \in 1..Len(p1)} :
              p1 \in BagToSet(pop), p2 \in BagToSet(pop)}

evolve(pop, prob) == BagsOfSize(Offspring(pop, prob), BagCardinality(pop))

add_n_random_nodes(pop, n, m) ==
    {pop (+) extra : extra \in BagsOfSize(RandomRoutes(n_units(m)), n)}

Fittest(pop, keep, m) ==
    {q \in BagsOfSize(BagToSet(pop), keep) :
        /\ q \sqsubseteq pop
        /\ \A r \in BagToSet(q) : \A d \in BagToSet(pop (-) q) :
               fitness(r, m) >= fitness(d, m)}

get_fittest_population(pop, keep, m) == Fittest(pop, keep, m)

Min(a, b) == IF a < b THEN a ELSE b

SeqToBag(s) ==
    [e \in Range(s) |-> Cardinality({i \in DOMAIN s : s[i] = e})]

SortedDescending(s, m) ==
    \A i \in 1..(Len(s) - 1) : fitness(s[i], m) >= fitness(s[i + 1], m)

get_n_fittest(pop, k, m) ==
    LET len == Min(k, BagCardinality(pop))
    IN  UNION {{s \in [1..len -> BagToSet(q)] :
                   SeqToBag(s) = q /\ SortedDescending(s, m)} :
               q \in Fittest(pop, len, m)}

-----------------------------------------------------------------------------
(* solve_tsp of tsp_solver.rs: the pieces of the expression                *)

Step(n) == Denominator \div n

MutationProbabilityRaw(i) == i

MutationProbability(i) == Denominator - i

KeepTopN(nr, tn) == tn

Keep(nr, tn) == nr

ReportAll(nr, tn) == nr

ReportCount(nr, tn) == tn

-----------------------------------------------------------------------------
(* main.rs: the response                                                   *)

SignedFitness(route, m) == fitness(route, m)

ReportedFitness(route, m) == 0 - fitness(route, m)

RouteWithFitness(route, m) ==
    [route |-> route, fitness |-> ReportedFitness(route, m)]

-----------------------------------------------------------------------------
Init ==
    /\ pc = "idle"
    /\ entry = "none"
    /\ distance_matrix = <<>>
    /\ n_generations = 0
    /\ n_routes = 0
    /\ n_random_individuals_per_generation = 0
    /\ top_n = 0
    /\ population = EmptyBag
    /\ mutation_probability_int = 0
    /\ transitions = 0
    /\ probs = <<>>
    /\ result = <<>>
    /\ error = "none"
    /\ solver_invoked = FALSE
    /\ status = 0
    /\ body = <<>>

(* A caller (the test, the command line) calls tsp_solver::solve_tsp with  *)
(* a DistanceMat it built.                                                 *)
CallSolveTsp ==
    /\ pc = "idle"
    /\ \E m \in DirectMatrices, ng \in GenerationCounts, nr \in 2..MaxRoutes,
          nrand \in 0..MaxRandom, tn \in 1..MaxTopN :
          /\ distance_matrix' = m
          /\ n_generations' = ng
          /\ n_routes' = nr
          /\ n_random_individuals_per_generation' = nrand
          /\ top_n' = tn
    /\ entry' = "direct"
    /\ solver_invoked' = TRUE
    /\ pc' = "solve"
    /\ UNCHANGED <<population, mutation_probability_int, transitions, probs,
                   result, error, status, body>>

(* POST /tsp: the request body has been deserialised into SolveTspData.    *)
PostTsp ==
    /\ pc = "idle"
    /\ \E m \in RequestMatrices, ng \in GenerationCounts :
          /\ distance_matrix' = m
          /\ n_generations' = ng
    /\ entry' = "api"
    /\ pc' = "new"
    /\ UNCHANGED <<n_routes, n_random_individuals_per_generation, top_n,
                   population, mutation_probability_int, transitions, probs,
                   result, error, solver_invoked, status, body>>

(* DistanceMat::new returns a DistanceMat, and the handler calls           *)
(* tsp_solver::solve_tsp with the serving configuration.                   *)
DistanceMatNew ==
    /\ pc = "new"
    /\ n_routes' = ServeNRoutes
    /\ n_random_individuals_per_generation' = ServeNRandom
    /\ top_n' = ServeTopN
    /\ solver_invoked' = TRUE
    /\ pc' = "solve"
    /\ UNCHANGED <<entry, distance_matrix, n_generations, population,
                   mutation_probability_int, transitions, probs, result,
                   error, status, body>>

(* The constructor is called for its value (no Result is unwrapped), so a  *)
(* constructor that rejects a non-square matrix can only panic.            *)
DistanceMatNewPanics ==
    /\ pc = "new"
    /\ ~IsSquare(distance_matrix)
    /\ error' = "InvalidMatrix"
    /\ pc' = "panicked"
    /\ UNCHANGED <<entry, distance_matrix, n_generations, n_routes,
                   n_random_individuals_per_generation, top_n, population,
                   mutation_probability_int, transitions, probs, result,
                   solver_invoked, status, body>>

(* let initial_population = distance_matrix.get_random_population(n_routes) *)
GetRandomPopulation ==
    /\ pc = "solve"
    /\ population' \in get_random_population(distance_matrix, n_routes)
    /\ pc' = "step_by"
    /\ UNCHANGED <<entry, distance_matrix, n_generations, n_routes,
                   n_random_individuals_per_generation, top_n,
                   mutation_probability_int, transitions, probs, result,
                   error, solver_invoked, status, body>>

(* (0..10000).step_by(10000 / n_generations): the division panics for      *)
(* n_generations = 0, and step_by panics for a step of 0.                  *)
StepBy ==
    /\ pc = "step_by"
    /\ IF n_generations = 0
       THEN /\ error' = "DivideByZero"
            /\ pc' = "panicked"
       ELSE IF Step(n_generations) = 0
       THEN /\ error' = "StepByZero"
            /\ pc' = "panicked"
       ELSE /\ error' = error
            /\ pc' = "fold"
    /\ mutation_probability_int' = 0
    /\ UNCHANGED <<entry, distance_matrix, n_generations, n_routes,
                   n_random_individuals_per_generation, top_n, population,
                   transitions, probs, result, solver_invoked, status, body>>

(* population.evolve(1.0 - (f64::from(mutation_probability_int) / 10000.0) as f32) *)
Evolve ==
    /\ pc = "fold"
    /\ mutation_probability_int < Denominator
    /\ LET prob == MutationProbability(mutation_probability_int)
       IN  /\ population' \in evolve(population, prob)
           /\ probs' = Append(probs, prob)
    /\ pc' = "evolved"
    /\ UNCHANGED <<entry, distance_matrix, n_generations, n_routes,
                   n_random_individuals_per_generation, top_n,
                   mutation_probability_int, transitions, result, error,
                   solver_invoked, status, body>>

(* .add_n_random_nodes(n_random_individuals_per_generation)                *)
AddNRandomNodes ==
    /\ pc = "evolved"
    /\ population' \in add_n_random_nodes(population,
                          n_random_individuals_per_generation, distance_matrix)
    /\ pc' = "added"
    /\ UNCHANGED <<entry, distance_matrix, n_generations, n_routes,
                   n_random_individuals_per_generation, top_n,
                   mutation_probability_int, transitions, probs, result,
                   error, solver_invoked, status, body>>

(* .get_fittest_population(n_routes, distance_matrix), the end of the      *)
(* closure; the iterator then advances by the step.                        *)
GetFittestPopulation ==
    /\ pc = "added"
    /\ LET keep == Keep(n_routes, top_n)
       IN  IF \E r \in BagToSet(population) : IndexError(r, distance_matrix)
           THEN /\ error' = "IndexError"
                /\ pc' = "panicked"
                /\ UNCHANGED <<population, mutation_probability_int, transitions>>
           ELSE IF keep > BagCardinality(population)
           THEN /\ error' = "InvalidArgument"
                /\ pc' = "panicked"
                /\ UNCHANGED <<population, mutation_probability_int, transitions>>
           ELSE /\ population' \in
                       get_fittest_population(population, keep, distance_matrix)
                /\ mutation_probability_int' =
                       mutation_probability_int + Step(n_generations)
                /\ transitions' = transitions + 1
                /\ pc' = "fold"
                /\ error' = error
    /\ UNCHANGED <<entry, distance_matrix, n_generations, n_routes,
                   n_random_individuals_per_generation, top_n, probs, result,
                   solver_invoked, status, body>>

(* .get_n_fittest(top_n, distance_matrix), once the iterator is exhausted  *)
GetNFittest ==
    /\ pc = "fold"
    /\ mutation_probability_int >= Denominator
    /\ result' \in get_n_fittest(population, ReportCount(n_routes, top_n),
                                 distance_matrix)
    /\ pc' = "returned"
    /\ UNCHANGED <<entry, distance_matrix, n_generations, n_routes,
                   n_random_individuals_per_generation, top_n, population,
                   mutation_probability_int, transitions, probs, error,
                   solver_invoked, status, body>>

(* The handler maps the routes to RouteWithFitness and answers with JSON.  *)
Respond ==
    /\ pc = "returned"
    /\ entry = "api"
    /\ body' = [i \in 1..Len(result) |->
                   RouteWithFitness(result[i], distance_matrix)]
    /\ status' = 200
    /\ pc' = "responded"
    /\ UNCHANGED <<entry, distance_matrix, n_generations, n_routes,
                   n_random_individuals_per_generation, top_n, population,
                   mutation_probability_int, transitions, probs, result,
                   error, solver_invoked>>

(* A panic in the handler is answered by the 500 catcher.                  *)
FailedComputation ==
    /\ pc = "panicked"
    /\ entry = "api"
    /\ body' = "Your computation could not be done."
    /\ status' = 500
    /\ pc' = "responded"
    /\ UNCHANGED <<entry, distance_matrix, n_generations, n_routes,
                   n_random_individuals_per_generation, top_n, population,
                   mutation_probability_int, transitions, probs, result,
                   error, solver_invoked>>

Next ==
    \/ CallSolveTsp
    \/ PostTsp
    \/ DistanceMatNew
    \/ DistanceMatNewPanics
    \/ GetRandomPopulation
    \/ StepBy
    \/ Evolve
    \/ AddNRandomNodes
    \/ GetFittestPopulation
    \/ GetNFittest
    \/ Respond
    \/ FailedComputation

Spec == Init /\ [][Next]_vars

-----------------------------------------------------------------------------
(* Properties                                                              *)

Returned == pc = "returned" \/ (pc = "responded" /\ status = 200)

(* C1: for n_generations >= 1, solve_tsp has applied the generation        *)
(* transition exactly n_generations times when it returns the top routes.  *)
C1_ExactlyNGenerations ==
    (Returned /\ n_generations >= 1) => transitions = n_generations

(* C2: solve_tsp called with n_generations = 0 does not fail; it performs  *)
(* no transition and returns top routes of the initial population.         *)
C2_ZeroGenerationsReturns ==
    (entry # "none" /\ n_generations = 0) =>
        /\ error = "none"
        /\ transitions = 0

(* C3: for a valid (square) distance matrix over n cities every route of   *)
(* the population and of the returned routes is a permutation of 0..n-1,   *)
(* in every state of the run.                                              *)
C3_RoutesArePermutations ==
    IsSquare(distance_matrix) =>
        /\ \A r \in BagToSet(population) :
               IsPermutation(r, n_units(distance_matrix))
        /\ \A i \in DOMAIN result :
               IsPermutation(result[i], n_units(distance_matrix))

C3_Witness ==
    /\ pc = "returned"
    /\ distance_matrix = Square3
    /\ transitions >= 2
    /\ Len(result) >= 2
    /\ result[1] # result[2]

(* C4: the probability passed to evolve in generation g (from 0) is        *)
(* 1.0 - g / n_generations.                                                *)
C4_LinearAnneal ==
    \A g \in DOMAIN probs :
        probs[g] * n_generations = Denominator * (n_generations - (g - 1))

(* C5: the probability passed to evolve is 1.0 in the first generation,    *)
(* never increases from a generation to the next, and lies in [0,1].       *)
C5_ScheduleInRange ==
    \A g \in DOMAIN probs :
        /\ probs[g] \in 0..Denominator
        /\ g = 1 => probs[g] = Denominator
        /\ g > 1 => probs[g] <= probs[g - 1]

C5_Witness ==
    /\ Len(probs) >= 3
    /\ probs[3] < probs[2]
    /\ probs[2] < probs[1]

(* C6: solve_tsp called with top_n > n_routes fails before any generation  *)
(* transition is executed.                                                 *)
C6_RejectedBeforeLoop ==
    (entry = "direct" /\ top_n > n_routes) =>
        /\ probs = <<>>
        /\ transitions = 0
        /\ pc # "returned"

(* C7: when top_n <= n_routes and the run completes, the result holds      *)
(* exactly top_n routes of the final population, best first, and no route  *)
(* left out is fitter than a returned one; the /tsp endpoint returns       *)
(* exactly 3 routes.                                                       *)
C7_TopNReturned ==
    /\ (Returned /\ top_n <= n_routes) =>
          /\ Len(result) = top_n
          /\ SeqToBag(result) \sqsubseteq population
          /\ \A i \in 1..(Len(result) - 1) :
                 fitness(result[i], distance_matrix)
                     >= fitness(result[i + 1], distance_matrix)
          /\ \A d \in BagToSet(population (-) SeqToBag(result)) :
                 \A i \in DOMAIN result :
                     fitness(d, distance_matrix)
                         <= fitness(result[i], distance_matrix)
    /\ (entry = "api" /\ status = 200) => Len(body) = 3

C7_Witness ==
    /\ pc = "returned"
    /\ distance_matrix = Square3
    /\ transitions >= 1
    /\ top_n < n_routes
    /\ Len(result) = top_n
    /\ \E d \in BagToSet(population (-) SeqToBag(result)) :
           fitness(d, distance_matrix) < fitness(result[1], distance_matrix)

(* C8: a /tsp request with a non-square matrix is rejected with a 4xx      *)
(* status and the solver is never invoked for it.                          *)
C8_NonSquareRejected ==
    (entry = "api" /\ ~IsSquare(distance_matrix)) =>
        /\ ~solver_invoked
        /\ status # 0 => status \in 400..499

C10_PopulationSizes ==
    /\ pc \in {"step_by", "fold", "evolved", "returned"} =>
           BagCardinality(population) = n_routes
    /\ pc = "added" =>
           /\ BagCardinality(population)
                  = n_routes + n_random_individuals_per_generation
           /\ Keep(n_routes, top_n) = n_routes
           /\ n_routes <= BagCardinality(population)
    /\ error # "InvalidArgument"

C10_Witness ==
    /\ pc = "added"
    /\ transitions >= 1
    /\ n_random_individuals_per_generation >= 1
    /\ BagCardinality(population) = n_routes + n_random_individuals_per_generation

=============================================================================
